---- MODULE Spec2Model ----
(***************************************************************************)
(* proj: a command line tool that registers named projects in a SQLite     *)
(* table, mirrors each one in a proj.yml sidecar file, and runs the        *)
(* stored start / teardown command by name.  The model follows the         *)
(* current main.go (the version with `stop` and TearDown).                 *)
(*                                                                         *)
(* Two specifications:                                                     *)
(*   Spec      - the command line: init, commit, start, stop invocations,  *)
(*               the user editing a sidecar file, the wall clock.          *)
(*   SpecStore - the methods of Proj called directly with any Project      *)
(*               value (SaveProject, CommitChanges with its UpdateProject, *)
(*               LoadProject), on any table the statements can build.      *)
(***************************************************************************)
EXTENDS Integers, Sequences, FiniteSets, TLC

VARIABLES
    store,    \* rows of table `projects` (a set: Id is the primary key)
    files,    \* directory -> contents of <directory>/proj.yml, where it exists
    now,      \* the value CURRENT_TIMESTAMP yields
    inv,      \* what the latest invocation (or method call) did
    latest,   \* history: record of the latest successful init or matching commit
    reg,      \* history: records registered by init and not committed over since
    n,        \* number of invocations made
    events    \* number of events so far: invocations, sidecar edits,
              \* environment faults (I/O and database errors), clock ticks

vars == <<store, files, now, inv, latest, reg, n, events>>

-----------------------------------------------------------------------------
(* Bounds of the exploration *)

MaxEvents == 3
MaxCalls == 2

-----------------------------------------------------------------------------
(* Values the flags, arguments and YAML keys are drawn from *)

Names == {"a", "b"}
Paths == {"/p", "/q"}
Commands == {"up", "build"}
TearDowns == {"", "down"}
IDs == {"123", "456"}

Project(id, name, path, command, teardown) ==
    [ID |-> id, Name |-> name, Path |-> path, Command |-> command,
     TearDown |-> teardown]

ZeroProject == Project("", "", "", "", "")

Projects ==
    {Project(i, m, p, c, t) : i \in IDs, m \in Names, p \in Paths,
                              c \in Commands, t \in TearDowns}

-----------------------------------------------------------------------------
(* SQL statements *)

\* CREATE TABLE projects: the columns of one row.
table(id, name, path, command, teardown, createdAt) ==
    [Id |-> id, Name |-> name, Path |-> path, Command |-> command,
     TearDown |-> teardown, CreatedAt |-> createdAt]

\* INSERT only: a statement that never replaces (faulty variant of add).
addNoReplace(rows, args, clock) ==
    rows \cup {table(args[1], args[2], args[3], args[4], args[5], clock)}

\* INSERT OR REPLACE INTO projects(Id, Name, Path, Command, TearDown,
\* CreatedAt) values(?, ?, ?, ?, ?, CURRENT_TIMESTAMP): the row with the same
\* primary key, if any, is deleted and the new row inserted.
add(rows, args, clock) ==
    {r \in rows : r.Id # args[1]}
        \cup {table(args[1], args[2], args[3], args[4], args[5], clock)}

\* UPDATE ... WHERE Name = ? (faulty variant of update: matched by name).
updateByName(rows, args) ==
    {IF r.Name = args[1]
        THEN [r EXCEPT !.Command = args[2], !.Path = args[3],
                       !.TearDown = args[4]]
        ELSE r : r \in rows}

\* UPDATE projects SET Name = ?, Command = ?, Path = ?, TearDown = ?
\* WHERE Id = ?
update(rows, args) ==
    {IF r.Id = args[5]
        THEN [r EXCEPT !.Name = args[1], !.Command = args[2],
                       !.Path = args[3], !.TearDown = args[4]]
        ELSE r : r \in rows}

\* SELECT Id, Name, Command, Path, TearDown FROM projects WHERE Name = ?
\* The result rows, each in the order of the select list.
find(rows, name) ==
    {<<r.Id, r.Name, r.Command, r.Path, r.TearDown>> :
        r \in {x \in rows : x.Name = name}}

\* QueryRow keeps one row of the result; with several matching rows SQL
\* leaves the order open, so any of them.  NoRows stands for sql.ErrNoRows.
NoRows == <<>>

QueryRow(rows, name) ==
    IF find(rows, name) = {} THEN {NoRows} ELSE find(rows, name)

\* Scan with destinations 3 and 4 exchanged (faulty variant of Scan).
ScanSwapped(cols) ==
    Project(cols[1], cols[2], cols[3], cols[4], cols[5])

\* row.Scan(&project.ID, &project.Name, &project.Command, &project.Path,
\*          &project.TearDown)
Scan(cols) ==
    [ID |-> cols[1], Name |-> cols[2], Command |-> cols[3],
     Path |-> cols[4], TearDown |-> cols[5]]

\* The five project columns of the table, without CreatedAt.
Fields(r) == Project(r.Id, r.Name, r.Path, r.Command, r.TearDown)

-----------------------------------------------------------------------------
(* YAML sidecar document *)

\* yaml.Marshal(&project): one key per struct tag of Project.
Marshal(project) ==
    [id |-> project.ID, name |-> project.Name, path |-> project.Path,
     command |-> project.Command, tear_down |-> project.TearDown]

\* yaml.Unmarshal(data, &project): each key into the field that carries its tag.
Unmarshal(data) ==
    [ID |-> data.id, Name |-> data.name, Path |-> data.path,
     Command |-> data.command, TearDown |-> data.tear_down]

YamlKeys == {"id", "name", "path", "command", "tear_down"}

\* The values a user may write under a key of proj.yml.
YamlValues(key) ==
    CASE key = "id" -> IDs
      [] key = "name" -> Names
      [] key = "path" -> Paths
      [] key = "command" -> Commands
      [] key = "tear_down" -> TearDowns

NoFiles == [d \in {} |-> Marshal(ZeroProject)]

-----------------------------------------------------------------------------
(* One process: its progress, exit status, output and effects *)

\* The process as main starts: nothing opened, nothing deferred, nothing printed.
NewProcess(rows, fs) ==
    [alive |-> TRUE, exit |-> 0, steps |-> <<>>, printed |-> <<>>,
     shells |-> <<>>, rows |-> rows, files |-> fs, deferred |-> {},
     opens |-> 0, closes |-> 0, loaded |-> ZeroProject]

Step(ps, op, ok) == [ps EXCEPT !.steps = Append(@, [op |-> op, ok |-> ok])]

Emit(ps, color, text) ==
    [ps EXCEPT !.printed = Append(@, [color |-> color, text |-> text])]

\* An error printer that returns to its caller (faulty variant of cliError).
cliErrorNoExit(ps, err) ==
    IF ~ps.alive THEN ps
    ELSE Emit(ps, "red", <<"==> Error:", err>>)

\* cliError: color.Red("==> Error: ...") then os.Exit(1).  os.Exit ends the
\* process at once: deferred calls are not run.
cliError(ps, err) ==
    IF ~ps.alive THEN ps
    ELSE [Emit(ps, "red", <<"==> Error:", err>>) EXCEPT
              !.alive = FALSE, !.exit = 1]

\* The deferred db.Close() of main, run when main returns or a panic unwinds.
RunDeferred(ps) ==
    IF "db.Close" \in ps.deferred
        THEN [Step(ps, "close", TRUE) EXCEPT !.closes = @ + 1, !.deferred = {}]
        ELSE ps

\* panic(err), and the runtime's own panics: deferred calls run, the panic
\* value is printed, the process exits with status 2.
panic(ps, err) ==
    IF ~ps.alive THEN ps
    ELSE [Emit(RunDeferred(ps), "none", <<"panic:", err>>) EXCEPT
              !.alive = FALSE, !.exit = 2]

\* main returns: deferred calls run, exit status 0.
Return(ps) ==
    IF ~ps.alive THEN ps
    ELSE [RunDeferred(ps) EXCEPT !.alive = FALSE, !.exit = 0]

\* InitDB: sql.Open; on error cliError.  (sql.Open never returns a nil *sql.DB
\* without an error, so the second check of InitDB has no case.)
InitDB(ps, fault) ==
    IF ~ps.alive THEN ps
    ELSE IF fault = "open"
        THEN cliError(Step(ps, "open", FALSE), "Could not create database.")
        ELSE [Step(ps, "open", TRUE) EXCEPT !.opens = @ + 1]

\* defer db.Close()
Defer(ps, call) ==
    IF ~ps.alive THEN ps
    ELSE [ps EXCEPT !.deferred = @ \cup {call}]

\* CreateTable: db.Exec(table); on error cliError.
CreateTable(ps, fault) ==
    IF ~ps.alive THEN ps
    ELSE IF fault = "table"
        THEN cliError(Step(ps, "createTable", FALSE),
                      "Failed to create database table.")
        ELSE Step(ps, "createTable", TRUE)

-----------------------------------------------------------------------------
(* Methods of Proj *)

\* SaveProject: Prepare(add), whose error is dropped (the next assignment
\* overwrites err), so a failed Prepare leaves stmt nil and stmt.Exec panics
\* on the nil pointer before any statement is run; then Exec(ID, Name, Path,
\* Command, TearDown); on error cliError.
SaveProject(ps, project, clock, fault) ==
    IF ~ps.alive THEN ps
    ELSE IF fault = "prepare"
        THEN panic(Step(ps, "prepare", FALSE), "nil pointer dereference")
    ELSE IF fault = "exec"
        THEN cliError(Step(Step(ps, "prepare", TRUE), "exec", FALSE),
                      "Failed to save project.")
    ELSE [Step(Step(ps, "prepare", TRUE), "exec", TRUE) EXCEPT
              !.rows = add(@, <<project.ID, project.Name, project.Path,
                                project.Command, project.TearDown>>, clock)]

\* UpdateProject: Prepare(update); on error cliError; Exec(Name, Command,
\* Path, TearDown, ID); on error cliError.  The number of rows the statement
\* changed is not looked at.
UpdateProject(ps, project, fault) ==
    IF ~ps.alive THEN ps
    ELSE IF fault = "prepare"
        THEN cliError(Step(ps, "prepare", FALSE), "Failed to update project.")
    ELSE IF fault = "exec"
        THEN cliError(Step(Step(ps, "prepare", TRUE), "exec", FALSE),
                      "Failed to update project.")
    ELSE [Step(Step(ps, "prepare", TRUE), "exec", TRUE) EXCEPT
              !.rows = update(@, <<project.Name, project.Command, project.Path,
                                   project.TearDown, project.ID>>)]

\* LoadProject: QueryRow(find, name), Scan into a zero-value Project; on error
\* (no rows, or a failing query) cliError.  `row` is the row QueryRow kept.
LoadProject(ps, name, fault, row) ==
    IF ~ps.alive THEN ps
    ELSE IF fault = "query" \/ row = NoRows
        THEN cliError([Step(ps, "query", FALSE) EXCEPT !.loaded = ZeroProject],
                      "Failed to load project.")
    ELSE [Step(ps, "query", TRUE) EXCEPT !.loaded = Scan(row)]

\* CreateProjectFile: yaml.Marshal (which cannot fail on a struct of five
\* strings), ioutil.WriteFile(project.Path + "/proj.yml"); on error panic.
CreateProjectFile(ps, project, fault) ==
    IF ~ps.alive THEN ps
    ELSE IF fault = "write"
        THEN panic(Step(ps, "writeFile", FALSE), "write proj.yml")
    ELSE [Step(ps, "writeFile", TRUE) EXCEPT
              !.files = (project.Path :> Marshal(project)) @@ @]

\* InitProject: CreateProjectFile, then SaveProject.
InitProject(ps, project, clock, fault) ==
    SaveProject(CreateProjectFile(ps, project, fault), project, clock, fault)

\* CommitChanges: ioutil.ReadFile("./proj.yml") in the working directory,
\* yaml.Unmarshal; on error panic; then UpdateProject.
CommitChanges(ps, cwd, fault) ==
    IF ~ps.alive THEN ps
    ELSE IF fault = "read" \/ cwd \notin DOMAIN ps.files
        THEN panic(Step(ps, "readFile", FALSE), "open ./proj.yml")
    ELSE IF fault = "unmarshal"
        THEN panic(Step(Step(ps, "readFile", TRUE), "unmarshal", FALSE),
                   "yaml: unmarshal errors")
    ELSE UpdateProject(Step(Step(ps, "readFile", TRUE), "unmarshal", TRUE),
                       Unmarshal(ps.files[cwd]), fault)

-----------------------------------------------------------------------------
(* Command runner *)

\* What a run of `sh -c <command> <path>` can give back.  The empty command
\* exits 0 with no output.
NoOutcome == [status |-> 0, stdout |-> "", stderr |-> ""]

ShellOutcomes(command) ==
    IF command = "" THEN {NoOutcome}
    ELSE {[status |-> 0, stdout |-> "", stderr |-> ""],
          [status |-> 0, stdout |-> "out", stderr |-> ""],
          [status |-> 1, stdout |-> "out", stderr |-> "err"]}

\* (*exec.ExitError).Error(): the process state, "exit status N".
ExitErrorText(status) ==
    IF status = 1 THEN "exit status 1" ELSE "exit status other"

\* printCommand: color.Magenta("==> Executing: ...", cmd.Args joined)
printCommand(ps, args) ==
    IF ~ps.alive THEN ps
    ELSE Emit(ps, "magenta", <<"==> Executing:">> \o args)

\* printOutput: color.Blue("==> Output: ...") when there is any output
printOutput(ps, outs) ==
    IF ~ps.alive \/ outs = "" THEN ps
    ELSE Emit(ps, "blue", <<"==> Output:", outs>>)

\* cmd.Run() with cmd.Stdout a buffer and cmd.Stderr nil (discarded): the
\* command runs once; a non-zero status comes back as an *exec.ExitError.
RunCmd(ps, args, sh) ==
    IF ~ps.alive THEN ps
    ELSE [Step(ps, "shell", sh.status = 0) EXCEPT !.shells = Append(@, args)]

\* cmd.Run() error check: if err != nil { cliError(err) }
CheckRun(ps, sh) ==
    IF ~ps.alive \/ sh.status = 0 THEN ps
    ELSE cliError(ps, ExitErrorText(sh.status))

\* StartProject with the captured output printed before the error check
\* (faulty variant of StartProject).
StartProjectOutputFirst(ps, name, fault, row, sh) ==
    LET p1 == LoadProject(ps, name, fault, row)
        args == <<"sh", "-c", p1.loaded.Command, p1.loaded.Path>>
        p2 == RunCmd(printCommand(p1, args), args, sh)
    IN  CheckRun(printOutput(p2, sh.stdout), sh)

\* StartProject: LoadProject, exec.Command("sh", "-c", project.Command,
\* project.Path), printCommand, Run, cliError on error, printOutput.
StartProject(ps, name, fault, row, sh) ==
    LET p1 == LoadProject(ps, name, fault, row)
        args == <<"sh", "-c", p1.loaded.Command, p1.loaded.Path>>
        p2 == RunCmd(printCommand(p1, args), args, sh)
    IN  printOutput(CheckRun(p2, sh), sh.stdout)

\* StopProject running the start command (faulty variant of StopProject).
StopProjectRunsCommand(ps, name, fault, row, sh) ==
    StartProject(ps, name, fault, row, sh)

\* StopProject: as StartProject, with project.TearDown as the command.
StopProject(ps, name, fault, row, sh) ==
    LET p1 == LoadProject(ps, name, fault, row)
        args == <<"sh", "-c", p1.loaded.TearDown, p1.loaded.Path>>
        p2 == RunCmd(printCommand(p1, args), args, sh)
    IN  printOutput(CheckRun(p2, sh), sh.stdout)

-----------------------------------------------------------------------------
(* main *)

Argv(cmd, name, path, command, teardown) ==
    [cmd |-> cmd, name |-> name, path |-> path, command |-> command,
     teardown |-> teardown]

\* An id made from the project name (faulty variant of NewProjectID).
NewProjectIDFromName(name) == "id-" \o name

\* The ID main gives every record it builds for init: the literal "123".
NewProjectID(name) == "123"

\* The Project main builds from the init flags.
InitRecord(argv) ==
    Project(NewProjectID(argv.name), argv.name, argv.path, argv.command,
            argv.teardown)

\* main: InitDB, defer db.Close(), CreateTable, then the parsed command.
main(rows, fs, clock, argv, cwd, fault, row, sh) ==
    LET p0 == NewProcess(rows, fs)
        p1 == Defer(InitDB(p0, fault), "db.Close")
        p2 == CreateTable(p1, fault)
        p3 == CASE argv.cmd = "init" ->
                     InitProject(p2, InitRecord(argv), clock, fault)
                [] argv.cmd = "commit" ->
                     CommitChanges(IF p2.alive
                                      THEN Emit(p2, "green", <<"Updating...">>)
                                      ELSE p2,
                                   cwd, fault)
                [] argv.cmd = "start" ->
                     StartProject(IF p2.alive
                                     THEN Emit(p2, "green",
                                               <<"Starting", argv.name>>)
                                     ELSE p2,
                                  argv.name, fault, row, sh)
                [] argv.cmd = "stop" ->
                     StopProject(IF p2.alive
                                    THEN Emit(p2, "blue",
                                              <<"Stopping:", argv.name>>)
                                    ELSE p2,
                                 argv.name, fault, row, sh)
    IN  Return(p3)

-----------------------------------------------------------------------------
(* State machine *)

\* What an invocation leaves behind for an observer.
Summary(op, argv, project, ps, sh, fault) ==
    [op |-> op, argv |-> argv, project |-> project,
     exit |-> IF ps.alive THEN 0 ELSE ps.exit,
     steps |-> ps.steps, printed |-> ps.printed, shells |-> ps.shells,
     loaded |-> ps.loaded, opens |-> ps.opens, closes |-> ps.closes,
     sh |-> IF ps.shells = <<>> THEN NoOutcome ELSE sh, fault |-> fault]

NoArgv == Argv("none", "", "", "", "")

NoInvocation ==
    Summary("none", NoArgv, ZeroProject, NewProcess({}, NoFiles), NoOutcome,
            "none")

AllOutcomes == ShellOutcomes("up")

\* The outcome drawn for a process must be one the command it ran can give.
OutcomeFits(ps, sh) ==
    IF ps.shells = <<>> THEN sh = NoOutcome
    ELSE sh \in ShellOutcomes(ps.shells[1][3])

\* The sidecar document commit would read in cwd, as a Project.
Sidecar(fs, cwd) ==
    IF cwd \in DOMAIN fs THEN Unmarshal(fs[cwd]) ELSE ZeroProject

\* The environment faults (I/O and database errors) an invocation may meet.
Faults(kinds) == kinds \cup {"none"}

\* The times an invocation may happen at: within the same second as the one
\* before, or a second later.
Times == {now, now + 1}

\* An invocation is one event, a fault it meets another, a clock tick another.
Cost(fault, t) ==
    1 + (IF fault = "none" THEN 0 ELSE 1) + (IF t = now THEN 0 ELSE 1)

Affordable(fault, t) == events + Cost(fault, t) <= MaxEvents

\* The process ps has run at time t: its effects become the state.
Effects(ps, summary, t, fault) ==
    /\ store' = ps.rows
    /\ files' = ps.files
    /\ inv' = summary
    /\ now' = t
    /\ events' = events + Cost(fault, t)
    /\ n' = n + 1

Init ==
    /\ store = {}
    /\ files = NoFiles
    /\ now = 0
    /\ inv = NoInvocation
    /\ latest = {}
    /\ reg = {}
    /\ n = 0
    /\ events = 0

\* proj init --name --path --command [--teardown]
RunInit ==
    \E name \in Names, path \in Paths, command \in Commands,
       teardown \in TearDowns, t \in Times,
       fault \in Faults({"open", "table", "write", "prepare", "exec"}) :
      /\ Affordable(fault, t)
      /\ \E argv \in {Argv("init", name, path, command, teardown)} :
         \E ps \in {main(store, files, t, argv, path, fault, NoRows,
                         NoOutcome)} :
           /\ Effects(ps, Summary("init", argv, InitRecord(argv), ps,
                                  NoOutcome, fault), t, fault)
           /\ latest' = IF ps.exit = 0 THEN {InitRecord(argv)} ELSE latest
           /\ reg' = IF ps.exit = 0
                       THEN {q \in reg : q.Name # name} \cup {InitRecord(argv)}
                       ELSE reg

\* proj commit, run in directory cwd
RunCommit ==
    \E cwd \in Paths, t \in Times,
       fault \in Faults({"open", "table", "read", "unmarshal", "prepare",
                         "exec"}) :
      /\ Affordable(fault, t)
      /\ \E argv \in {Argv("commit", "", "", "", "")},
            doc \in {Sidecar(files, cwd)} :
         \E ps \in {main(store, files, t, argv, cwd, fault, NoRows,
                         NoOutcome)} :
           /\ Effects(ps, Summary("commit", argv, doc, ps, NoOutcome, fault), t,
                      fault)
           /\ latest' = IF ps.exit = 0 /\ \E r \in store : r.Id = doc.ID
                          THEN {doc} ELSE latest
           /\ reg' = {}

\* proj start <name>
RunStart ==
    \E name \in Names, t \in Times,
       fault \in Faults({"open", "table", "query"}) :
      /\ Affordable(fault, t)
      /\ \E argv \in {Argv("start", name, "", "", "")},
            row \in QueryRow(store, name), sh \in AllOutcomes :
         \E ps \in {main(store, files, t, argv, "", fault, row, sh)} :
           /\ OutcomeFits(ps, sh)
           /\ Effects(ps, Summary("start", argv, ZeroProject, ps, sh, fault), t,
                      fault)
           /\ UNCHANGED <<latest, reg>>

\* proj stop <name>
RunStop ==
    \E name \in Names, t \in Times,
       fault \in Faults({"open", "table", "query"}) :
      /\ Affordable(fault, t)
      /\ \E argv \in {Argv("stop", name, "", "", "")},
            row \in QueryRow(store, name), sh \in AllOutcomes :
         \E ps \in {main(store, files, t, argv, "", fault, row, sh)} :
           /\ OutcomeFits(ps, sh)
           /\ Effects(ps, Summary("stop", argv, ZeroProject, ps, sh, fault), t,
                      fault)
           /\ UNCHANGED <<latest, reg>>

\* The user rewrites one key of an existing proj.yml.
EditSidecar ==
    /\ events < MaxEvents
    /\ \E d \in DOMAIN files, key \in YamlKeys :
         \E v \in YamlValues(key) :
            /\ files[d][key] # v
            /\ files' = [files EXCEPT ![d][key] = v]
    /\ events' = events + 1
    /\ UNCHANGED <<store, now, inv, latest, reg, n>>

Next ==
    \/ RunInit
    \/ RunCommit
    \/ RunStart
    \/ RunStop
    \/ EditSidecar

Spec == Init /\ [][Next]_vars

-----------------------------------------------------------------------------
(* The store and the sidecar reader driven directly: methods of Proj called   *)
(* with any Project value, on any table the statements can have built.        *)

StoreProjects ==
    {Project(i, m, "/p", c, "down") : i \in IDs, m \in Names, c \in Commands}

\* Tables to start from: at most one row per Id, saved at time 0.
Tables ==
    {T \in SUBSET {table(i, m, "/p", "up", "down", 0) : i \in IDs, m \in Names} :
        \A r1, r2 \in T : r1.Id = r2.Id => r1 = r2}

\* Sidecar files to start from: none, or one in /p.
SidecarFiles == {NoFiles} \cup {("/p" :> Marshal(p)) : p \in Projects}

\* A Proj whose database is open, about to run one method.
Proj(rows, fs) == [NewProcess(rows, fs) EXCEPT !.opens = 1]

InitStore ==
    /\ store \in Tables
    /\ files \in SidecarFiles
    /\ now = 0
    /\ inv = NoInvocation
    /\ latest = {}
    /\ reg = {}
    /\ n = 0
    /\ events = 0

CallCost(fault) == IF fault = "none" THEN 1 ELSE 2

CallEffects(ps, summary, t, fault) ==
    /\ store' = ps.rows
    /\ files' = ps.files
    /\ inv' = summary
    /\ now' = t
    /\ events' = events + CallCost(fault)
    /\ n' = n + 1
    /\ UNCHANGED <<latest, reg>>

\* proj.SaveProject(project) at time t
CallSaveProject ==
    \E project \in StoreProjects, t \in Times,
       fault \in Faults({"prepare", "exec"}) :
      /\ events + CallCost(fault) <= MaxCalls
      /\ \E ps \in {SaveProject(Proj(store, files), project, t, fault)} :
           CallEffects(ps, Summary("SaveProject", NoArgv, project, ps,
                                   NoOutcome, fault), t, fault)

\* proj.CommitChanges() in directory cwd
CallCommitChanges ==
    \E cwd \in Paths,
       fault \in Faults({"read", "unmarshal", "prepare", "exec"}) :
      /\ events + CallCost(fault) <= MaxCalls
      /\ \E ps \in {CommitChanges(Proj(store, files), cwd, fault)} :
           CallEffects(ps, Summary("CommitChanges", NoArgv,
                                   Sidecar(files, cwd), ps, NoOutcome,
                                   fault), now, fault)

\* proj.LoadProject(name)
CallLoadProject ==
    \E name \in Names, fault \in Faults({"query"}) :
      /\ events + CallCost(fault) <= MaxCalls
      /\ \E row \in QueryRow(store, name) :
         \E ps \in {LoadProject(Proj(store, files), name, fault, row)} :
           CallEffects(ps, Summary("LoadProject",
                                   Argv("LoadProject", name, "", "", ""),
                                   ZeroProject, ps, NoOutcome, fault), now, fault)

NextStore ==
    \/ CallSaveProject
    \/ CallCommitChanges
    \/ CallLoadProject

SpecStore == InitStore /\ [][NextStore]_vars

-----------------------------------------------------------------------------
(* Properties *)

IsCli == inv.op \in {"init", "commit", "start", "stop"}

IsStartStop == inv.op \in {"start", "stop"}

\* The latest invocation got as far as the given step.
Did(op, ok) == \E i \in DOMAIN inv.steps : inv.steps[i] = [op |-> op, ok |-> ok]

\* A printed text contains the string s.
Includes(text, s) == s = "" \/ \E i \in DOMAIN text : text[i] = s

ErrorMessages ==
    {inv.printed[i] : i \in {j \in DOMAIN inv.printed :
                                 inv.printed[j].color \in {"red", "none"}}}

\* C1: a start that directly follows a successful init of the same name, and
\* meets no environment fault, finds a row, and the record LoadProject returns
\* has the id main gave the record and the name, path, command and teardown
\* that were given to init as flags, each in its own field.
C1_RoundTrip ==
    [][(/\ inv.op = "init" /\ inv.exit = 0
        /\ n' = n + 1
        /\ inv'.op = "start"
        /\ inv'.argv.name = inv.argv.name
        /\ inv'.fault = "none")
       => /\ \E i \in DOMAIN inv'.steps :
                inv'.steps[i] = [op |-> "query", ok |-> TRUE]
          /\ inv'.loaded.ID = inv.project.ID
          /\ inv'.loaded.Name = inv.argv.name
          /\ inv'.loaded.Path = inv.argv.path
          /\ inv'.loaded.Command = inv.argv.command
          /\ inv'.loaded.TearDown = inv.argv.teardown]_vars

\* C1 witness: the second invocation is a start that loaded the record the
\* first invocation, an init with a teardown command, registered.
C1_Witness ==
    /\ n = 2 /\ inv.op = "start" /\ inv.fault = "none"
    /\ latest = {inv.loaded}
    /\ inv.loaded.Name = inv.argv.name
    /\ inv.loaded.TearDown = "down"

\* The rows commit should leave if it matched the sidecar's name and kept ids.
UpdatedByName(rows, doc) ==
    {IF r.Name = doc.Name
        THEN [r EXCEPT !.Path = doc.Path, !.Command = doc.Command,
                       !.TearDown = doc.TearDown]
        ELSE r : r \in rows}

\* C2 as claimed: a successful commit changes exactly the rows whose name is
\* the sidecar's name (path, command, teardown from the sidecar, id kept) and
\* leaves every other row as it was.
C2_MatchedByName ==
    [][(n' = n + 1 /\ inv'.op \in {"CommitChanges", "commit"} /\ inv'.exit = 0)
       => store' = UpdatedByName(store, inv'.project)]_vars

\* C2 amended: a successful commit changes exactly the row whose id is the
\* sidecar's id: its name, path, command and teardown become the sidecar's,
\* its id and CreatedAt stay; every other row is unchanged and no row is
\* added or removed.
C2_MatchedById ==
    [][(n' = n + 1 /\ inv'.op \in {"CommitChanges", "commit"} /\ inv'.exit = 0)
       => /\ Cardinality(store') = Cardinality(store)
          /\ \A r \in store :
               IF r.Id = inv'.project.ID
                 THEN table(r.Id, inv'.project.Name, inv'.project.Path,
                            inv'.project.Command, inv'.project.TearDown,
                            r.CreatedAt) \in store'
                 ELSE r \in store']_vars

\* C2 witness: a commit has renamed and rewritten one of two rows; the other
\* row is as the table started.
C2_Witness ==
    /\ n = 1 /\ inv.op = "CommitChanges" /\ inv.exit = 0
    /\ Cardinality(store) = 2
    /\ \E r \in store :
         /\ r.Id = inv.project.ID
         /\ Fields(r) = inv.project
         /\ r.Command = "build" /\ r.Path = "/q" /\ r.TearDown = ""
    /\ \E r \in store : r.Id # inv.project.ID /\ r.Name = inv.project.Name

\* C3: a start or stop whose name no row carries ends with a non-zero exit
\* status and runs no shell command, and when it got to the lookup its last
\* message is the load failure; and no start or stop ever runs a shell command
\* built from the zero-value record.
C3_NotFoundIsFatal ==
    IsStartStop =>
      /\ (\A r \in store : r.Name # inv.argv.name)
           => /\ inv.exit # 0
              /\ inv.shells = <<>>
              /\ (Did("query", FALSE)
                    => inv.printed[Len(inv.printed)].text
                         = <<"==> Error:", "Failed to load project.">>)
      /\ \A i \in DOMAIN inv.shells :
           /\ inv.loaded # ZeroProject
           /\ inv.shells[i] # <<"sh", "-c", "", "">>

\* C3 witness: a stop looked up a name that no row of a non-empty store carries.
C3_Witness ==
    /\ inv.op = "stop" /\ inv.fault = "none"
    /\ store # {}
    /\ \A r \in store : r.Name # inv.argv.name
    /\ Did("query", FALSE)

\* C4 as claimed: when the shell command of start or stop exits non-zero, the
\* invocation exits non-zero and an error message it prints includes the
\* command's captured standard output and standard error.
C4_ErrorIncludesOutput ==
    (IsStartStop /\ inv.sh.status # 0)
      => /\ inv.exit # 0
         /\ \E m \in ErrorMessages :
              Includes(m.text, inv.sh.stdout) /\ Includes(m.text, inv.sh.stderr)

\* C4 amended: when the shell command of start or stop exits non-zero, the
\* invocation exits with status 1 and its last message is the error with the
\* text of the exit error ("exit status N"); nothing it prints includes the
\* command's standard output or standard error.
C4_ErrorIsExitStatus ==
    (IsStartStop /\ inv.sh.status # 0)
      => /\ inv.exit = 1
         /\ inv.printed[Len(inv.printed)]
              = [color |-> "red",
                 text |-> <<"==> Error:", ExitErrorText(inv.sh.status)>>]
         /\ \A i \in DOMAIN inv.printed :
              /\ ~Includes(inv.printed[i].text, "out")
              /\ ~Includes(inv.printed[i].text, "err")

\* C4 witness: a start ran a command that wrote output and exited with 1.
C4_Witness ==
    /\ inv.op = "start" /\ Len(inv.shells) = 1
    /\ inv.sh.status = 1 /\ inv.sh.stdout = "out" /\ inv.sh.stderr = "err"

\* A successful SaveProject call is the step being taken.
Saving == n' = n + 1 /\ inv'.op = "SaveProject" /\ inv'.exit = 0

\* What every successful Save does, whatever the claim about repeating it:
\* with the id present the row count stays and the row of that id now holds
\* the record, the other rows untouched; with the name present under another
\* id, that row stays and a row of the saved id carries the same name, which
\* is one row more when the id is new.
SaveUpserts ==
    LET p == inv'.project
    IN  /\ \E r \in store' : Fields(r) = p
        /\ \A r \in store : r.Id # p.ID => r \in store'
        /\ (\E r \in store : r.Id = p.ID)
             => Cardinality(store') = Cardinality(store)
        /\ (\E r \in store : r.Name = p.Name /\ r.Id # p.ID)
             => /\ \E r1, r2 \in store' :
                     r1.Id # r2.Id /\ r1.Name = p.Name /\ r2.Name = p.Name
                /\ (\A r \in store : r.Id # p.ID)
                     => Cardinality(store') = Cardinality(store) + 1

\* C5 as claimed: Save of a record whose id exists replaces that row and keeps
\* the row count, and saving the same record a second time leaves the store
\* exactly as the first save left it; Save of a record whose name exists under
\* another id leaves two rows with that name.
C5_SaveTwiceSameStore ==
    [][Saving
       => /\ SaveUpserts
          /\ (inv.op = "SaveProject" /\ inv.exit = 0
              /\ inv.project = inv'.project)
               => store' = store]_vars

\* C5 amended: as claimed, except that the second save of the same record
\* leaves the same store in the five project columns only: the row's CreatedAt
\* becomes the time of the second save.
C5_SaveTwiceSameFields ==
    [][Saving
       => /\ SaveUpserts
          /\ \A r \in store' : r.Id = inv'.project.ID => r.CreatedAt = now'
          /\ (inv.op = "SaveProject" /\ inv.exit = 0
              /\ inv.project = inv'.project)
               => /\ {Fields(r) : r \in store'} = {Fields(r) : r \in store}
                  /\ \A r \in store : r.Id # inv.project.ID => r \in store']_vars

\* C5 witness: the second of two calls was a Save, a second later than the
\* first, that replaced the row of its id; the other row carries the same name.
C5_Witness ==
    /\ n = 2 /\ inv.op = "SaveProject" /\ inv.exit = 0
    /\ now = 1
    /\ Cardinality(store) = 2
    /\ \E r \in store :
         Fields(r) = inv.project /\ r.CreatedAt = 1 /\ r.Command = "build"
    /\ \A r \in store : r.Name = inv.project.Name

\* The record a commit addresses is in the store neither by id nor by name.
\* (An UPDATE that matches no row changes nothing, so the store after the
\* commit shows it.)
CommitMissesRecord ==
    /\ inv.op = "commit"
    /\ Did("exec", TRUE)
    /\ \A r \in store : r.Id # inv.project.ID /\ r.Name # inv.project.Name

FirstFailure ==
    CHOOSE i \in DOMAIN inv.steps :
        /\ ~inv.steps[i].ok
        /\ \A j \in 1 .. (i - 1) : inv.steps[j].ok

\* C6: in init, commit, start and stop every failure - a failed open, create
\* table, prepare, execute, query, file read or write, a non-zero shell exit,
\* a commit or start or stop whose record is missing - ends the invocation:
\* an error message is printed, the exit status is not 0, and no statement,
\* file or shell step follows the failed one (only the deferred close may).
C6_FailuresTerminal ==
    IsCli =>
      /\ (CommitMissesRecord \/ \E i \in DOMAIN inv.steps : ~inv.steps[i].ok)
           => inv.exit # 0 /\ ErrorMessages # {}
      /\ (\E i \in DOMAIN inv.steps : ~inv.steps[i].ok)
           => \A j \in DOMAIN inv.steps :
                j > FirstFailure => inv.steps[j].op = "close"

\* C7: a start runs one command, the Command of the one row that carries the
\* name, and a stop one command, that row's TearDown, with the row's Path as
\* argument; the row is the record of the latest successful init or matching
\* commit; no invocation runs more than one command; and a start or stop step
\* leaves every row and every sidecar file as it was.
C7_RunsStoredCommand ==
    [][/\ Len(inv'.shells) <= 1
       /\ (inv'.op \in {"start", "stop"} /\ n' = n + 1)
            => /\ store' = store /\ files' = files
               /\ inv'.shells # <<>>
                    => /\ inv'.fault = "none"
                       /\ \E r \in store :
                            /\ r.Name = inv'.argv.name
                            /\ latest = {Fields(r)}
                            /\ inv'.shells[1]
                                 = <<"sh", "-c",
                                     IF inv'.op = "start" THEN r.Command
                                                          ELSE r.TearDown,
                                     r.Path>>
               /\ (inv'.fault = "none"
                   /\ \E r \in store : r.Name = inv'.argv.name)
                    => Len(inv'.shells) = 1
       /\ (inv'.op \in {"init", "commit"} /\ n' = n + 1)
            => inv'.shells = <<>>]_vars

\* C7 witness: a stop ran the teardown command of the stored record.
C7_Witness ==
    /\ inv.op = "stop" /\ inv.exit = 0
    /\ \E r \in store :
         /\ r.Name = inv.argv.name /\ r.Command = "up"
         /\ inv.shells = << <<"sh", "-c", "down", r.Path>> >>

\* C8: every invocation opens the store connection once and closes it once.
C8_OpenedAndClosedOnce ==
    IsCli => inv.opens = 1 /\ inv.closes = 1

\* C9: every record init registered (and no commit rewrote) is still in the
\* store with its field values after any later init for another name, start
\* or stop, and no step makes the number of rows smaller.
C9_NeverDeleted ==
    [][/\ \A p \in reg' : \E r \in store' : Fields(r) = p
       /\ Cardinality(store') >= Cardinality(store)]_vars

\* C10: the store holds at most one row, and its five project columns are
\* those of the latest successful init or matching commit (no row before the
\* first successful init).
C10_AtMostOneRow ==
    /\ Cardinality(store) <= 1
    /\ {Fields(r) : r \in store} = latest

\* C10 witness: after an init in /p, a commit of the edited sidecar has moved
\* the single row to path /q.
C10_Witness ==
    /\ n = 2 /\ inv.op = "commit" /\ inv.exit = 0
    /\ DOMAIN files = {"/p"}
    /\ Cardinality(store) = 1
    /\ \E r \in store : Fields(r) = inv.project /\ r.Path = "/q"

====
